---- MODULE Spec2Model ----
(***************************************************************************)
(* Model of app.py: the step pipeline (Cleanup, Download, CompressAnalysis, *)
(* NormalizeCSV, CutVideo), the timestamp arithmetic, the segment merge and *)
(* the chunk cutting/concatenation choreography.                            *)
(*                                                                          *)
(* Conventions.                                                             *)
(*  - A timestamp string is the sequence of its colon-separated fields      *)
(*    (what ts.split(":") returns).  A field is [k, v]: k = "int" is a      *)
(*    decimal integer literal of value v, k = "dec" is a literal with a     *)
(*    fractional part whose value is v milliseconds, k = "bad" is a         *)
(*    non-numeric string.                                                   *)
(*  - Seconds are counted in integer milliseconds (float rounding is not    *)
(*    modelled).                                                            *)
(*  - A description string is the sequence of its pieces; string            *)
(*    concatenation is \o.                                                  *)
(*  - video.csv is [exists, rows]; the other files of the data directory    *)
(*    are the set files.                                                    *)
(***************************************************************************)
EXTENDS Integers, Sequences, FiniteSets, TLC

\* ------------------------------------------------------------------ bounds
MaxSegs == 3

DefaultGapThreshold == 3000

Thresholds == {0, DefaultGapThreshold}

\* ------------------------------------------------------ timestamp strings
I(n) == [k |-> "int", v |-> n]
D(ms) == [k |-> "dec", v |-> ms]
X == [k |-> "bad", v |-> 0]

T0 == <<I(0), I(0), I(0)>>
T5 == <<I(0), I(0), I(5)>>
T8 == <<I(0), I(0), I(8)>>
T8001 == <<I(0), I(0), D(8001)>>
T60 == <<I(0), I(1), I(0)>>
T64 == <<I(0), I(1), I(4)>>
T65 == <<I(0), I(1), I(5)>>
TwoFields == <<I(0), I(5)>>
FourFields == <<I(0), I(0), I(5), I(9)>>
BadField == <<I(0), X, I(5)>>

Seg(f, t, d) == [from |-> f, to |-> t, file |-> "", desc |-> d]

\* The rows the analysis collaborator may put in video.csv.
Rows ==
    { Seg(T0, T5, <<"a">>),
      Seg(T8, T60, <<"b">>),
      Seg(T8001, T60, <<>>),
      Seg(T64, T65, <<"d">>),
      Seg(T8, T5, <<"e">>),
      Seg(TwoFields, T5, <<"f">>),
      Seg(T0, FourFields, <<"g">>),
      Seg(BadField, T5, <<"h">>) }

SeqsUpTo(S, n) == UNION { [1..k -> S] : k \in 0..n }

Tables == SeqsUpTo(Rows, MaxSegs)

NoCsv == [exists |-> FALSE, rows |-> <<>>]
CsvOf(rows) == [exists |-> TRUE, rows |-> rows]

\* ------------------------------------------------------------- conversions
Ok(ms) == [err |-> "none", val |-> ms]
Err(e) == [err |-> e, val |-> 0]

\* int(parts[n]) / float(parts[n]): IndexError past the end of the list,
\* ValueError on a string the conversion rejects.
IntOf(parts, n) ==
    IF n > Len(parts) THEN Err("IndexError")
    ELSE IF parts[n].k = "int" THEN Ok(parts[n].v)
    ELSE Err("ValueError")

FloatOf(parts, n) ==
    IF n > Len(parts) THEN Err("IndexError")
    ELSE IF parts[n].k = "int" THEN Ok(parts[n].v * 1000)
    ELSE IF parts[n].k = "dec" THEN Ok(parts[n].v)
    ELSE Err("ValueError")

\* timestamp_to_seconds: the three conversions are evaluated left to right
\* and the first exception wins; fields after the third are never read.
timestamp_to_seconds(ts) ==
    LET h == IntOf(ts, 1)
        m == IntOf(ts, 2)
        s == FloatOf(ts, 3)
    IN  IF h.err # "none" THEN h
        ELSE IF m.err # "none" THEN m
        ELSE IF s.err # "none" THEN s
        ELSE Ok(h.val * 3600000 + m.val * 60000 + s.val)

\* _calc_duration's arithmetic on a duration in milliseconds: Python's //
\* and % floor towards minus infinity, as \div and % do.  The result is the
\* formatted string, again as its three fields.
FormatDuration(duration) ==
    << I(duration \div 3600000),
       I((duration % 3600000) \div 60000),
       D(duration % 60000) >>

\* _calc_duration: to is parsed before from.
calc_duration(from_ts, to_ts) ==
    LET t == timestamp_to_seconds(to_ts)
        f == timestamp_to_seconds(from_ts)
    IN  IF t.err # "none" THEN [err |-> t.err, str |-> <<>>]
        ELSE IF f.err # "none" THEN [err |-> f.err, str |-> <<>>]
        ELSE [err |-> "none", str |-> FormatDuration(t.val - f.val)]

\* f"{i:04d}.mp4"
ChunkNames == <<"0001.mp4", "0002.mp4", "0003.mp4", "0004.mp4", "0005.mp4", "0006.mp4">>
FileName(i) == ChunkNames[i]

\* ------------------------------------------------------------------- state
VARIABLES
    steps,          \* Pipeline.steps, in add_step order
    gap_threshold,  \* NormalizeCSVStep.gap_threshold, in milliseconds
    argc,           \* len(sys.argv)
    pc,             \* "main", "run", "norm_loop", "cut_loop", "cut_concat", "cut_cleanup", "exited"
    stepIdx,        \* position of Pipeline.run's for loop in steps (1-based)
    started,        \* names of the steps whose execute() was entered, in order
    results,        \* the StepResults returned so far, in order
    exitCode,       \* process exit code, -1 while running
    crash,          \* "" or the exception that left main uncaught
    files,          \* names of the files in the data directory, video.csv apart
    csv,            \* video.csv
    segments,       \* NormalizeCSVStep.execute: the list of dicts read from the csv
    merged,         \* ... the list merged, as references (indices) into segments
    idx,            \* ... position of "for seg in segments[1:]" in segments
    normIn,         \* history: video.csv as each NormalizeCSVStep.execute found it
    written,        \* history: the tables NormalizeCSVStep.execute wrote
    parsed,         \* history: timestamp_to_seconds calls of the last step, <<ts, result>>
    cut_segments,   \* CutVideoStep.execute: the list of dicts read from the csv
    chunk_files,    \* ... chunk_files
    ci,             \* ... the loop's i (0-based)
    trims,          \* history: the trim invocations, [i, ss, t, out, rc]
    concats,        \* history: the concatenation invocations, [manifest, rc]
    manifest,       \* content of concat.txt (meaningful while "concat.txt" \in files)
    deleted         \* history: the names unlinked by CutVideoStep.execute, in order

config == <<steps, gap_threshold, argc>>
ctl == <<pc, stepIdx, results, exitCode, crash>>
normVars == <<segments, merged, idx>>
cutVars == <<cut_segments, chunk_files, ci>>
cutHist == <<trims, concats, deleted>>
vars == <<steps, gap_threshold, argc, pc, stepIdx, started, results, exitCode, crash,
          files, csv, segments, merged, idx, normIn, written, parsed,
          cut_segments, chunk_files, ci, trims, concats, manifest, deleted>>

\* ---------------------------------------------------------------- pipeline
MainSteps == <<"Cleanup", "Download", "CompressAnalysis", "NormalizeCSV", "CutVideo">>

\* A driver that applies the normalizer twice to one directory, then cuts.
TwiceSteps == <<"NormalizeCSV", "NormalizeCSV", "CutVideo">>

Compositions == {MainSteps, TwiceSteps}

StepResult(step, success, text, n) ==
    [step |-> step, success |-> success, text |-> text, n |-> n]

\* A run loop that goes on after a failure.
StopsPipeline_never(r) == FALSE

\* Pipeline.run: "if result.success ... else ... return False"
StopsPipeline(r) == ~r.success

\* A step returns r to Pipeline.run, which goes on to the next step or returns
\* False to main, which exits with 1.
Return(r) ==
    /\ results' = Append(results, r)
    /\ crash' = crash
    /\ IF StopsPipeline(r)
       THEN pc' = "exited" /\ exitCode' = 1 /\ stepIdx' = stepIdx
       ELSE pc' = "run" /\ exitCode' = exitCode /\ stepIdx' = stepIdx + 1

\* An exception nobody catches: it leaves execute, run and main, and the
\* interpreter exits with 1.
Raise(e) ==
    /\ pc' = "exited"
    /\ exitCode' = 1
    /\ crash' = e
    /\ UNCHANGED <<results, stepIdx>>

Entering(name) ==
    /\ pc = "run"
    /\ stepIdx <= Len(steps)
    /\ steps[stepIdx] = name
    /\ started' = Append(started, name)

\* main: the usage check, then the pipeline is built and run.
Main ==
    /\ pc = "main"
    /\ IF argc < 2
       THEN pc' = "exited" /\ exitCode' = 1
       ELSE pc' = "run" /\ exitCode' = exitCode
    /\ UNCHANGED <<config, stepIdx, started, results, crash, files, csv, normVars,
                   normIn, written, parsed, cutVars, cutHist, manifest>>

\* Pipeline.run falls out of its loop and returns True; main exits with 0.
PipelineDone ==
    /\ pc = "run"
    /\ stepIdx > Len(steps)
    /\ pc' = "exited"
    /\ exitCode' = 0
    /\ UNCHANGED <<config, stepIdx, started, results, crash, files, csv, normVars,
                   normIn, written, parsed, cutVars, cutHist, manifest>>

\* ----------------------------------------------------- the first three steps
Mp4Names == {"video.mp4", "compressed.mp4"} \cup {ChunkNames[k] : k \in DOMAIN ChunkNames}
SrtNames == {"subtitles.srt"}

\* CleanupStep.execute: unlink every *.mp4, *.csv, *.srt.
Cleanup ==
    /\ Entering("Cleanup")
    /\ files' = files \ (Mp4Names \cup SrtNames)
    /\ csv' = NoCsv
    /\ Return(StepResult("Cleanup", TRUE, "cleaned", 0))
    /\ UNCHANGED <<config, normVars, normIn, written, parsed, cutVars, cutHist, manifest>>

\* DownloadStep.execute: subtitles first, then the video; yt-dlp decides.
Download ==
    /\ Entering("Download")
    /\ \E outcome \in {"no_subtitles", "video_failed", "video_missing", "ok"} :
         /\ files' = CASE outcome = "no_subtitles" -> files
                       [] outcome = "ok" -> files \cup {"subtitles.srt", "video.mp4"}
                       [] OTHER -> files \cup {"subtitles.srt"}
         /\ Return(StepResult("Download", outcome = "ok", outcome, 0))
    /\ UNCHANGED <<config, csv, normVars, normIn, written, parsed, cutVars, cutHist, manifest>>

\* CompressAnalysisStep.execute: the subtitle check, then the assistant runs
\* and writes video.csv, or does not.
CompressAnalysis ==
    /\ Entering("CompressAnalysis")
    /\ IF "subtitles.srt" \notin files
       THEN /\ csv' = csv
            /\ Return(StepResult("CompressAnalysis", FALSE, "No subtitles file found", 0))
       ELSE \E outcome \in {"no_prompt", "claude_failed", "cli_missing", "no_csv", "ok"} :
              /\ csv' \in CASE outcome = "ok" -> {CsvOf(t) : t \in Tables}
                            [] outcome = "no_csv" -> {NoCsv}
                            [] OTHER -> {csv}
              /\ Return(StepResult("CompressAnalysis", outcome = "ok", outcome, 0))
    /\ UNCHANGED <<config, files, normVars, normIn, written, parsed, cutVars, cutHist, manifest>>

\* ------------------------------------------------------------ NormalizeCSV
\* The csv.DictReader loop: the columns execute keeps of each row.
ReadSegments(rows) ==
    [k \in 1..Len(rows) |-> [from |-> rows[k].from, to |-> rows[k].to, desc |-> rows[k].desc]]

\* The emptiness check left out.
NoSegments_never(segs) == FALSE

\* "if not segments"
NoSegments(segs) == segs = <<>>

\* The comparison with < in place of <=.
ShouldMerge_strict(gap, threshold) == gap < threshold

\* "if gap <= self.gap_threshold"
ShouldMerge(gap, threshold) == gap <= threshold

\* The write-back numbering the files by position in segments, not in merged.
WriteRows_inputIndex(segs, mrg) ==
    [k \in 1..Len(mrg) |->
        [from |-> segs[mrg[k]].from, to |-> segs[mrg[k]].to,
         file |-> FileName(mrg[k]), desc |-> segs[mrg[k]].desc]]

\* The write-back loop, "for i, seg in enumerate(merged, 1)": merged holds
\* references into segs.
WriteRows(segs, mrg) ==
    [k \in 1..Len(mrg) |->
        [from |-> segs[mrg[k]].from, to |-> segs[mrg[k]].to,
         file |-> FileName(k), desc |-> segs[mrg[k]].desc]]

\* execute up to "merged = [segments[0]]".
NormalizeStart ==
    /\ Entering("NormalizeCSV")
    /\ normIn' = Append(normIn, csv)
    /\ IF ~csv.exists
       THEN /\ Return(StepResult("NormalizeCSV", FALSE, "video.csv not found", 0))
            /\ UNCHANGED normVars
       ELSE LET segs == ReadSegments(csv.rows)
            IN  /\ segments' = segs
                /\ IF NoSegments(segs)
                   THEN /\ Return(StepResult("NormalizeCSV", FALSE, "No segments in CSV", 0))
                        /\ UNCHANGED <<merged, idx>>
                   ELSE IF Len(segs) = 0
                   THEN /\ Raise("IndexError")
                        /\ UNCHANGED <<merged, idx>>
                   ELSE /\ merged' = <<1>>
                        /\ idx' = 2
                        /\ pc' = "norm_loop"
                        /\ UNCHANGED <<stepIdx, results, exitCode, crash>>
    /\ UNCHANGED <<config, files, csv, written, parsed, cutVars, cutHist, manifest>>

\* One iteration of "for seg in segments[1:]".  prev is merged[-1], the same
\* dict object as an element of segments, so the merge assigns through it.
NormalizeMerge ==
    /\ pc = "norm_loop"
    /\ idx <= Len(segments)
    /\ LET prev == merged[Len(merged)]
           seg == segments[idx]
           prev_end == timestamp_to_seconds(segments[prev].to)
           curr_start == timestamp_to_seconds(seg.from)
           gap == curr_start.val - prev_end.val
       IN  IF prev_end.err # "none"
           THEN /\ parsed' = Append(parsed, <<segments[prev].to, prev_end>>)
                /\ Raise(prev_end.err)
                /\ UNCHANGED normVars
           ELSE /\ parsed' = parsed \o << <<segments[prev].to, prev_end>>, <<seg.from, curr_start>> >>
                /\ IF curr_start.err # "none"
                   THEN /\ Raise(curr_start.err)
                        /\ UNCHANGED normVars
                   ELSE /\ IF ShouldMerge(gap, gap_threshold)
                           THEN /\ segments' = [segments EXCEPT
                                        ![prev].to = seg.to,
                                        ![prev].desc = @ \o <<"; ">> \o seg.desc]
                                /\ merged' = merged
                           ELSE /\ merged' = Append(merged, idx)
                                /\ segments' = segments
                        /\ idx' = idx + 1
                        /\ UNCHANGED ctl
    /\ UNCHANGED <<config, started, files, csv, normIn, written, cutVars, cutHist, manifest>>

\* The loop is over: video.csv is rewritten and execute returns.
NormalizeWrite ==
    /\ pc = "norm_loop"
    /\ idx > Len(segments)
    /\ csv' = CsvOf(WriteRows(segments, merged))
    /\ written' = Append(written, WriteRows(segments, merged))
    /\ Return(StepResult("NormalizeCSV", TRUE, "Normalized", Len(segments) - Len(merged)))
    /\ UNCHANGED <<config, started, files, normVars, normIn, parsed, cutVars, cutHist, manifest>>

\* ---------------------------------------------------------------- CutVideo
\* The csv.DictReader loop of CutVideoStep.execute.
ReadCutSegments(rows) ==
    [k \in 1..Len(rows) |-> [from |-> rows[k].from, to |-> rows[k].to, file |-> rows[k].file]]

\* The trim's return code ignored.
TrimFailed_ignored(rc) == FALSE

\* "if result.returncode != 0" after the trim
TrimFailed(rc) == rc # 0

\* The loop index reported as it is.
ReportedIndex_raw(i) == i

\* The segment number of "Failed to cut segment {i+1}"
ReportedIndex(i) == i + 1

\* The concatenation's return code ignored.
MergeFailed_ignored(rc) == FALSE

\* "if result.returncode != 0" after the concatenation
MergeFailed(rc) == rc # 0

\* The unlink loop stopping one chunk short.
ChunksToUnlink_short(chunks) == SubSeq(chunks, 1, Len(chunks) - 1)

\* "for chunk in chunk_files: chunk.unlink()"
ChunksToUnlink(chunks) == chunks

\* Path.unlink over names, in order: FileNotFoundError at the first name that
\* is not on disk, the earlier ones gone.
RECURSIVE UnlinkAll(_, _, _)
UnlinkAll(fs, names, done) ==
    IF names = <<>> THEN [files |-> fs, deleted |-> done, err |-> "none"]
    ELSE IF Head(names) \notin fs
    THEN [files |-> fs, deleted |-> done, err |-> "FileNotFoundError"]
    ELSE UnlinkAll(fs \ {Head(names)}, Tail(names), Append(done, Head(names)))

\* execute up to the cutting loop.
CutStart ==
    /\ Entering("CutVideo")
    /\ IF "video.mp4" \notin files
       THEN /\ Return(StepResult("CutVideo", FALSE, "video.mp4 not found", 0))
            /\ UNCHANGED cutVars
       ELSE IF ~csv.exists
       THEN /\ Return(StepResult("CutVideo", FALSE, "video.csv not found", 0))
            /\ UNCHANGED cutVars
       ELSE IF ReadCutSegments(csv.rows) = <<>>
       THEN /\ Return(StepResult("CutVideo", FALSE, "No segments found in CSV", 0))
            /\ UNCHANGED cutVars
       ELSE /\ cut_segments' = ReadCutSegments(csv.rows)
            /\ chunk_files' = <<>>
            /\ ci' = 0
            /\ pc' = "cut_loop"
            /\ UNCHANGED <<stepIdx, results, exitCode, crash>>
    /\ UNCHANGED <<config, files, csv, normVars, normIn, written, parsed, cutHist, manifest>>

\* One iteration of "for i, seg in enumerate(segments)": the duration, then
\* the trim.  A trim that returns 0 has written its chunk; one that fails may
\* or may not leave a file behind.
CutTrim ==
    /\ pc = "cut_loop"
    /\ ci < Len(cut_segments)
    /\ LET seg == cut_segments[ci + 1]
           t == timestamp_to_seconds(seg.to)
           f == timestamp_to_seconds(seg.from)
           duration == calc_duration(seg.from, seg.to)
       IN  /\ chunk_files' = Append(chunk_files, seg.file)
           /\ parsed' = IF t.err # "none"
                        THEN Append(parsed, <<seg.to, t>>)
                        ELSE parsed \o << <<seg.to, t>>, <<seg.from, f>> >>
           /\ IF duration.err # "none"
              THEN /\ Raise(duration.err)
                   /\ UNCHANGED <<files, trims, ci>>
              ELSE \E rc \in {0, 1} :
                   /\ trims' = Append(trims, [i |-> ci, ss |-> seg.from, t |-> duration.str,
                                              out |-> seg.file, rc |-> rc])
                   /\ files' \in IF rc = 0 THEN {files \cup {seg.file}}
                                 ELSE {files, files \cup {seg.file}}
                   /\ IF TrimFailed(rc)
                      THEN /\ Return(StepResult("CutVideo", FALSE, "Failed to cut segment",
                                                ReportedIndex(ci)))
                           /\ ci' = ci
                      ELSE /\ ci' = ci + 1
                           /\ UNCHANGED ctl
    /\ UNCHANGED <<config, started, csv, normVars, normIn, written, cut_segments,
                   concats, deleted, manifest>>

\* The loop is over: concat.txt is written and the concatenation runs.  One
\* that returns 0 has written compressed.mp4; one that fails may or may not
\* leave a file behind.
CutConcat ==
    /\ pc = "cut_loop"
    /\ ci >= Len(cut_segments)
    /\ manifest' = chunk_files
    /\ \E rc \in {0, 1} :
         /\ concats' = Append(concats, [manifest |-> chunk_files, rc |-> rc])
         /\ files' \in IF rc = 0 THEN {files \cup {"concat.txt", "compressed.mp4"}}
                       ELSE {files \cup {"concat.txt"},
                             files \cup {"concat.txt", "compressed.mp4"}}
         /\ IF MergeFailed(rc)
            THEN Return(StepResult("CutVideo", FALSE, "Failed to merge segments", 0))
            ELSE /\ pc' = "cut_cleanup"
                 /\ UNCHANGED <<stepIdx, results, exitCode, crash>>
    /\ UNCHANGED <<config, started, csv, normVars, normIn, written, parsed, cutVars,
                   trims, deleted>>

\* The chunks and concat.txt are unlinked and execute returns.
CutCleanup ==
    /\ pc = "cut_cleanup"
    /\ LET u == UnlinkAll(files, ChunksToUnlink(chunk_files), deleted)
           v == UnlinkAll(u.files, <<"concat.txt">>, u.deleted)
       IN  IF u.err # "none"
           THEN /\ files' = u.files
                /\ deleted' = u.deleted
                /\ Raise(u.err)
           ELSE /\ files' = v.files
                /\ deleted' = v.deleted
                /\ IF v.err # "none"
                   THEN Raise(v.err)
                   ELSE Return(StepResult("CutVideo", TRUE, "Created compressed.mp4",
                                          Len(cut_segments)))
    /\ UNCHANGED <<config, started, csv, normVars, normIn, written, parsed, cutVars,
                   trims, concats, manifest>>

\* ------------------------------------------------------------ specification
\* main's pipeline starts in main, on a data directory that is empty or holds
\* a previous run's files; the two-pass driver starts on a directory that
\* holds any table, or none, and the source video, or not.
StaleFiles == {"video.mp4", "compressed.mp4", "subtitles.srt"}

Init ==
    /\ steps \in Compositions
    /\ IF steps = MainSteps
       THEN /\ pc = "main"
            /\ argc \in {1, 2}
            /\ gap_threshold = DefaultGapThreshold
            /\ files \in {{}, StaleFiles}
            /\ csv \in {NoCsv, CsvOf(<<Seg(T0, T5, <<"a">>)>>)}
       ELSE /\ pc = "run"
            /\ argc = 2
            /\ gap_threshold \in Thresholds
            /\ files \in {{}, {"video.mp4"}}
            /\ csv \in {NoCsv} \cup {CsvOf(t) : t \in Tables}
    /\ stepIdx = 1
    /\ started = <<>>
    /\ results = <<>>
    /\ exitCode = -1
    /\ crash = ""
    /\ segments = <<>>
    /\ merged = <<>>
    /\ idx = 0
    /\ normIn = <<>>
    /\ written = <<>>
    /\ parsed = <<>>
    /\ cut_segments = <<>>
    /\ chunk_files = <<>>
    /\ ci = 0
    /\ trims = <<>>
    /\ concats = <<>>
    /\ manifest = <<>>
    /\ deleted = <<>>

Next ==
    \/ Main
    \/ PipelineDone
    \/ Cleanup
    \/ Download
    \/ CompressAnalysis
    \/ NormalizeStart
    \/ NormalizeMerge
    \/ NormalizeWrite
    \/ CutStart
    \/ CutTrim
    \/ CutConcat
    \/ CutCleanup

Spec == Init /\ [][Next]_vars

\* ------------------------------------------------------------------ claims
LastResult == results[Len(results)]

\* The accumulator of NormalizeCSVStep.execute, dereferenced.
MergedView == [k \in 1..Len(merged) |-> segments[merged[k]]]

\* The table the k-th normalizer run read, and the one it wrote, as
\* (from, to, desc) records.
InputOf(k) == ReadSegments(normIn[k].rows)
OutputOf(k) == ReadSegments(written[k])

\* The reference fold of the merge: acc is the accumulator, rest the segments
\* still to come.
RECURSIVE RefFold(_, _, _)
RefFold(acc, rest, threshold) ==
    IF rest = <<>> THEN acc
    ELSE LET cur == Head(rest)
             last == acc[Len(acc)]
             gap == timestamp_to_seconds(cur.from).val - timestamp_to_seconds(last.to).val
         IN  IF gap <= threshold
             THEN RefFold([acc EXCEPT ![Len(acc)] =
                              [from |-> last.from, to |-> cur.to,
                               desc |-> last.desc \o <<"; ">> \o cur.desc]],
                          Tail(rest), threshold)
             ELSE RefFold(Append(acc, cur), Tail(rest), threshold)

RefNormalize(segs, threshold) == RefFold(<<Head(segs)>>, Tail(segs), threshold)

\* At every iteration the accumulator is the fold of the segments seen so
\* far, and a written table is the fold of the table read.
FoldMatches ==
    /\ pc = "norm_loop" =>
         MergedView = RefNormalize(SubSeq(InputOf(Len(normIn)), 1, idx - 1), gap_threshold)
    /\ \A k \in 1..Len(written) : OutputOf(k) = RefNormalize(InputOf(k), gap_threshold)

\* An iteration leaves every accumulator entry but the last as it was, and
\* never removes one.
NonRetroactive ==
    (pc = "norm_loop" /\ pc' = "norm_loop") =>
        /\ Len(merged') >= Len(merged)
        /\ \A k \in 1..(Len(merged) - 1) :
             segments'[merged'[k]] = segments[merged[k]]
        /\ Len(merged') > Len(merged) =>
             segments'[merged'[Len(merged)]] = segments[merged[Len(merged)]]

\* C1: the normalizer's output is the greedy left-to-right fold of its input
\* (merge into the last accumulator entry when gap <= threshold, negative gaps
\* included, else append), and no accumulator entry changes once a later one
\* has been appended.
C1_GreedyFold == [](FoldMatches) /\ [][NonRetroactive]_vars

\* A three-row table was normalized into two rows, the first of them by a
\* merge and the second by an append.
C1_Witness ==
    /\ Len(written) >= 1
    /\ Len(InputOf(1)) = 3
    /\ Len(written[1]) = 2
    /\ written[1][1].to = InputOf(1)[2].to
    /\ written[1][2].from = InputOf(1)[3].from

\* C2: a second normalizer run with the same threshold on the table the first
\* run wrote writes the same table, row for row and column for column, and
\* reports zero merges.
C2_Idempotent ==
    Len(written) >= 2 =>
        /\ written[2] = written[1]
        /\ results[2].step = "NormalizeCSV"
        /\ results[2].n = 0

\* Both runs are done, and the first one merged a three-row table into two.
C2_Witness ==
    /\ Len(written) = 2
    /\ Len(InputOf(1)) = 3
    /\ Len(written[1]) = 2
    /\ results[1].n = 1

\* The cutter's chunk names, as a set.
ChunkSet == {chunk_files[k] : k \in 1..Len(chunk_files)}

CutFailedWith(text) ==
    /\ pc = "exited"
    /\ crash = ""
    /\ results # <<>>
    /\ LastResult.step = "CutVideo"
    /\ ~LastResult.success
    /\ LastResult.text = text

\* C3: a failed trim for the segment at position i ends the step with a
\* failure result at once: it is the last trim, no manifest is written, no
\* concatenation runs, nothing is unlinked, chunks 0..i-1 are on disk and no
\* output file exists.
C3_TrimFailureAborts ==
    \A k \in 1..Len(trims) :
        trims[k].rc # 0 =>
            /\ k = Len(trims)
            /\ trims[k].i = k - 1
            /\ CutFailedWith("Failed to cut segment")
            /\ "concat.txt" \notin files
            /\ manifest = <<>>
            /\ concats = <<>>
            /\ deleted = <<>>
            /\ \A j \in 1..(k - 1) : trims[j].rc = 0 /\ trims[j].out \in files
            /\ "compressed.mp4" \notin files

\* Of three segments, the trim of the second (index 1) failed after the
\* first chunk was written.
C3_Witness ==
    /\ Len(cut_segments) = 3
    /\ Len(trims) = 2
    /\ trims[1].rc = 0
    /\ trims[2].rc # 0
    /\ trims[1].out \in files
    /\ pc = "exited"

CutSucceeded ==
    /\ results # <<>>
    /\ LastResult.step = "CutVideo"
    /\ LastResult.success

\* C4: a successful cut of the N segments the normalizer wrote has trimmed N
\* distinct chunks, written one manifest naming them in order, produced
\* compressed.mp4 and then unlinked the N chunks and the manifest, so that
\* the only video files left are compressed.mp4 and video.mp4; and nothing is
\* ever unlinked before a concatenation has succeeded.
C4_SuccessCleansUp ==
    /\ deleted # <<>> => (Len(concats) = 1 /\ concats[1].rc = 0)
    /\ CutSucceeded =>
         LET N == Len(written[Len(written)])
         IN  /\ Len(cut_segments) = N
             /\ Len(trims) = N
             /\ \A k \in 1..N : trims[k].rc = 0 /\ trims[k].out = FileName(k)
             /\ Cardinality(ChunkSet) = N
             /\ Len(concats) = 1
             /\ concats[1].manifest = [k \in 1..N |-> FileName(k)]
             /\ deleted = [k \in 1..(N + 1) |-> IF k <= N THEN FileName(k) ELSE "concat.txt"]
             /\ files \cap Mp4Names = {"compressed.mp4", "video.mp4"}
             /\ "concat.txt" \notin files
             /\ ChunkSet \cap files = {}

\* A cut of three segments succeeded.
C4_Witness ==
    /\ CutSucceeded
    /\ Len(cut_segments) = 3
    /\ Len(deleted) = 4
    /\ "compressed.mp4" \in files

\* C5: when every trim succeeded and the concatenation fails, the step ends
\* with the merge failure and unlinks nothing: the N chunks are all on disk.
C5_MergeFailureKeepsChunks ==
    \A k \in 1..Len(concats) :
        concats[k].rc # 0 =>
            /\ CutFailedWith("Failed to merge segments")
            /\ \A j \in 1..Len(trims) : trims[j].rc = 0
            /\ deleted = <<>>
            /\ Len(chunk_files) = Len(cut_segments)
            /\ Cardinality(ChunkSet \cap files) = Len(cut_segments)

\* Three chunks were cut and the concatenation failed.
C5_Witness ==
    /\ Len(concats) = 1
    /\ concats[1].rc # 0
    /\ Len(cut_segments) = 3
    /\ Cardinality(ChunkSet \cap files) = 3

AllSucceeded ==
    /\ Len(results) = Len(steps)
    /\ \A k \in 1..Len(results) : results[k].success

\* C6: the steps are entered in add_step order, each only after all before it
\* returned success; a failure result is the last thing that happens (no later
\* step is entered) and ends the process; the exit code is 0 exactly when
\* every step returned success, and 1 when any step failed.
C6_StopAtFirstFailure ==
    /\ Len(started) <= Len(steps)
    /\ \A k \in 1..Len(started) : started[k] = steps[k]
    /\ Len(results) <= Len(started)
    /\ Len(started) <= Len(results) + 1
    /\ \A k \in 1..Len(results) :
         /\ results[k].step = steps[k]
         /\ ~results[k].success =>
              /\ k = Len(results)
              /\ Len(started) = k
              /\ pc = "exited"
              /\ exitCode = 1
    /\ pc = "exited" =>
         /\ exitCode \in {0, 1}
         /\ exitCode = 0 <=> AllSucceeded
    /\ pc # "exited" => exitCode = -1

\* main's pipeline stopped at its fourth step, the fifth never entered.
C6_Witness ==
    /\ steps = MainSteps
    /\ pc = "exited"
    /\ exitCode = 1
    /\ Len(results) = 4
    /\ ~results[4].success
    /\ started = SubSeq(MainSteps, 1, 4)

\* A timestamp the parse is to refuse: not three fields, or a non-numeric one.
Malformed(ts) ==
    \/ Len(ts) # 3
    \/ \E n \in 1..Len(ts) : ts[n].k = "bad"

\* C7: timestamp_to_seconds never returns a value for a timestamp whose field
\* count is not 3 or that has a non-numeric field.
C7_MalformedRejected ==
    \A k \in 1..Len(parsed) :
        Malformed(parsed[k][1]) => parsed[k][2].err # "none"

\* C8: no trim is invoked, and no duration string produced, for a segment
\* whose end precedes its start.
C8_NegativeDurationRejected ==
    \A k \in 1..Len(trims) :
        LET seg == cut_segments[trims[k].i + 1]
        IN  timestamp_to_seconds(seg.to).val - timestamp_to_seconds(seg.from).val >= 0

\* C9 as stated: the failure names the failed segment by its 0-based index.
C9_ReportsZeroBasedIndex ==
    \A k \in 1..Len(trims) :
        (trims[k].rc # 0 /\ pc = "exited") => LastResult.n = trims[k].i

\* C9 amended: the failure names the failed segment by its 1-based position,
\* the 0-based index plus one.
C9_ReportsOneBasedPosition ==
    \A k \in 1..Len(trims) :
        (trims[k].rc # 0 /\ pc = "exited") =>
            /\ LastResult.text = "Failed to cut segment"
            /\ LastResult.n = trims[k].i + 1
            /\ LastResult.n = k

\* The trim at index 1 of three failed and segment 2 is reported.
C9_Witness ==
    /\ Len(cut_segments) = 3
    /\ Len(trims) = 2
    /\ trims[2].rc # 0
    /\ trims[2].i = 1
    /\ pc = "exited"
    /\ LastResult.n = 2

EmptyInput(table) == ~table.exists \/ table.rows = <<>>

\* C10: a normalizer run that finds no video.csv, or one without segment
\* rows, returns a failure result and writes nothing: video.csv is as it was
\* found (absent stays absent).
C10_EmptyInputFails ==
    \A k \in 1..Len(normIn) :
        EmptyInput(normIn[k]) =>
            /\ k = Len(normIn)
            /\ pc = "exited"
            /\ crash = ""
            /\ exitCode = 1
            /\ LastResult.step = "NormalizeCSV"
            /\ ~LastResult.success
            /\ LastResult.text = IF normIn[k].exists THEN "No segments in CSV"
                                 ELSE "video.csv not found"
            /\ csv = normIn[k]
            /\ Len(written) = k - 1

\* main's pipeline: the assistant wrote a table with a header and no rows.
C10_Witness ==
    /\ steps = MainSteps
    /\ Len(normIn) = 1
    /\ normIn[1].exists
    /\ normIn[1].rows = <<>>
    /\ csv = normIn[1]
    /\ pc = "exited"

\* The two-pass driver's first run found no video.csv.
C10_WitnessNoFile ==
    /\ Len(normIn) = 1
    /\ ~normIn[1].exists
    /\ ~csv.exists
    /\ pc = "exited"

\* start < end, on timestamps that are well formed.
ValidSegment(seg) ==
    /\ ~Malformed(seg.from)
    /\ ~Malformed(seg.to)
    /\ timestamp_to_seconds(seg.from).err = "none"
    /\ timestamp_to_seconds(seg.to).err = "none"
    /\ timestamp_to_seconds(seg.from).val < timestamp_to_seconds(seg.to).val

AllValid(segs) == \A j \in 1..Len(segs) : ValidSegment(segs[j])

\* Every table written from a table of valid segments holds valid segments.
OutputKeepsStartBeforeEnd ==
    \A k \in 1..Len(written) :
        AllValid(InputOf(k)) => AllValid(OutputOf(k))

\* An iteration on a table of valid segments moves no accumulator entry's end
\* to an earlier time.
EndNeverMovesBack ==
    (pc = "norm_loop" /\ pc' = "norm_loop" /\ AllValid(InputOf(Len(normIn)))) =>
        \A k \in 1..Len(merged) :
            timestamp_to_seconds(segments'[merged'[k]].to).val
                >= timestamp_to_seconds(segments[merged[k]].to).val

\* C11: for every input table whose segments all satisfy start < end, in any
\* order, every segment the normalizer writes satisfies start < end, and a
\* merge never moves a segment's end to an earlier time.
C11_StartBeforeEndPreserved ==
    [](OutputKeepsStartBeforeEnd) /\ [][EndNeverMovesBack]_vars

====
